---- MODULE Spec2Model ----
(***************************************************************************)
(* Model of scripts/sync_prices.py: the price-sync pipeline                 *)
(*   filter -> merge -> aliases -> cache-1hr auto-fill -> custom models     *)
(*   -> change-detecting write,                                             *)
(* run repeatedly against a data file and its companion hash file.          *)
(*                                                                         *)
(* Representation.                                                          *)
(*  - A Python str is held by name and spelled out in Spelling, so that    *)
(*    startswith, `in` and sort order are computed from its characters.     *)
(*  - A JSON value is a record tagged by t: "dict", "int", "float" or       *)
(*    "null"; a dict keeps its keys in insertion order (ord) and its items  *)
(*    in map; a number keeps its value v in hundredths.                     *)
(*  - Python's == on JSON values is PyEq: dicts compare without regard to   *)
(*    insertion order and 1 == 1.0, although json.dumps writes them         *)
(*    differently.                                                          *)
(***************************************************************************)
EXTENDS Integers, Sequences, FiniteSets, TLC

VARIABLES
    pc,               \* position of the process in main(), or of a harness
    config,           \* the loaded config.json
    output_file,      \* disk: the data file
    hash_file,        \* disk: the hash file
    existing,         \* main: existing
    old_hash,         \* main: old_hash
    upstream,         \* main: upstream
    filtered,         \* main: filtered
    merged,           \* main: merged (the dict every later stage mutates)
    stats,            \* main: stats
    cache_1hr_count,  \* main: cache_1hr_count
    changed,          \* main: changed
    new_hash,         \* main: new_hash
    before,           \* history: merged as the stage that ran last received it
    again,            \* harness: what a second call of the operation returned
    runs,             \* history: number of runs started
    start_disk,       \* history: the two files as the current run found them
    last_run          \* history: what the previous run fetched and produced

vars == <<pc, config, output_file, hash_file, existing, old_hash, upstream,
          filtered, merged, stats, cache_1hr_count, changed, new_hash,
          before, again, runs, start_disk, last_run>>

(***************************************************************************)
(* Bounds of the model.                                                     *)
(***************************************************************************)
MaxModels == 2      \* models in a generated catalog
MaxPatterns == 2    \* entries in prefix_filters / exclude_patterns
MaxAliases == 2     \* entries in the aliases mapping
MaxRuns == 2        \* runs of main() in a row

(***************************************************************************)
(* Python str.  A string is held by name; Spelling gives its characters,    *)
(* from which startswith, `in` and < are computed.                          *)
(***************************************************************************)
Spelling ==
    ("" :> <<>>) @@
    ("-x" :> <<"-", "x">>) @@
    ("3" :> <<"3">>) @@
    ("cache_creation_input_token_cost" :> <<"c", "a", "c", "h", "e", "_", "c", "r", "e", "a", "t", "i", "o", "n", "_", "i", "n", "p", "u", "t", "_", "t", "o", "k", "e", "n", "_", "c", "o", "s", "t">>) @@
    ("cache_creation_input_token_cost_above_1hr" :> <<"c", "a", "c", "h", "e", "_", "c", "r", "e", "a", "t", "i", "o", "n", "_", "i", "n", "p", "u", "t", "_", "t", "o", "k", "e", "n", "_", "c", "o", "s", "t", "_", "a", "b", "o", "v", "e", "_", "1", "h", "r">>) @@
    ("claude-" :> <<"c", "l", "a", "u", "d", "e", "-">>) @@
    ("claude-3" :> <<"c", "l", "a", "u", "d", "e", "-", "3">>) @@
    ("claude-x" :> <<"c", "l", "a", "u", "d", "e", "-", "x">>) @@
    ("cost" :> <<"c", "o", "s", "t">>) @@
    ("gpt-" :> <<"g", "p", "t", "-">>) @@
    ("gpt-3" :> <<"g", "p", "t", "-", "3">>) @@
    ("gpt-4" :> <<"g", "p", "t", "-", "4">>) @@
    ("my-3" :> <<"m", "y", "-", "3">>) @@
    ("mode" :> <<"m", "o", "d", "e">>)

Chars(s) == Spelling[s]

\* The characters used, in code-point order ('-' < digits < '_' < letters).
Alphabet ==
    <<"-", "1", "3", "4", "_", "a", "b", "c", "d", "e", "g", "h", "i", "k", "l", "m", "n", "o", "p", "r", "s", "t", "u", "v", "x", "y">>

Ord(c) == CHOOSE i \in 1..Len(Alphabet) : Alphabet[i] = c

\* key.startswith(p)
StartsWith(key, p) ==
    /\ Len(Chars(p)) <= Len(Chars(key))
    /\ SubSeq(Chars(key), 1, Len(Chars(p))) = Chars(p)

\* key.startswith(prefixes), prefixes a tuple of str
StartsWithAny(key, prefixes) ==
    \E i \in 1..Len(prefixes) : StartsWith(key, prefixes[i])

\* pat in key
Contains(key, pat) ==
    \E i \in 0..(Len(Chars(key)) - Len(Chars(pat))) :
        SubSeq(Chars(key), i + 1, i + Len(Chars(pat))) = Chars(pat)

\* x < y on str: the order sort_keys=True sorts by
StrLess(x, y) ==
    LET a == Chars(x)
        b == Chars(y)
    IN  \E i \in 1..Len(b) :
            /\ i <= Len(a) + 1
            /\ SubSeq(a, 1, i - 1) = SubSeq(b, 1, i - 1)
            /\ (i = Len(a) + 1 \/ Ord(a[i]) < Ord(b[i]))

RECURSIVE SortKeys(_)
SortKeys(S) ==
    IF S = {} THEN <<>>
    ELSE LET m == CHOOSE k \in S : \A j \in S \ {k} : StrLess(k, j)
         IN  <<m>> \o SortKeys(S \ {m})

Range(s) == {s[i] : i \in 1..Len(s)}

(***************************************************************************)
(* JSON values as Python holds them.                                        *)
(***************************************************************************)
None == [t |-> "null"]
IntVal(n) == [t |-> "int", v |-> n]
FloatVal(n) == [t |-> "float", v |-> n]
EmptyDict == [t |-> "dict", ord |-> <<>>, map |-> <<>>]

IsDict(x) == x.t = "dict"
IsNumber(x) == x.t \in {"int", "float"}
Keys(d) == Range(d.ord)
DictLen(d) == Len(d.ord)

\* d.get(k): None for a missing key
Get(d, k) == IF k \in Keys(d) THEN d.map[k] ELSE None

\* d[k] = x: a new key goes last, a present key keeps its place
Put(d, k, x) ==
    IF k \in Keys(d)
    THEN [d EXCEPT !.map = [j \in Keys(d) |-> IF j = k THEN x ELSE d.map[j]]]
    ELSE [d EXCEPT !.ord = Append(d.ord, k),
                   !.map = [j \in Keys(d) \cup {k} |->
                               IF j = k THEN x ELSE d.map[j]]]

\* d.update(e)
RECURSIVE UpdateFrom(_, _, _)
UpdateFrom(d, e, i) ==
    IF i > Len(e.ord) THEN d
    ELSE UpdateFrom(Put(d, e.ord[i], e.map[e.ord[i]]), e, i + 1)

Update(d, e) == UpdateFrom(d, e, 1)

\* a == b in Python
RECURSIVE PyEq(_, _)
PyEq(a, b) ==
    IF IsDict(a) /\ IsDict(b)
    THEN /\ Keys(a) = Keys(b)
         /\ \A k \in Keys(a) : PyEq(a.map[k], b.map[k])
    ELSE IF IsNumber(a) /\ IsNumber(b) THEN a.v = b.v
    ELSE a.t = b.t /\ ~IsDict(a)

\* A dict built from a sequence of keys and a function on them.
MkDict(ord, map) == [t |-> "dict", ord |-> ord, map |-> map]

\* Sequences without repetition, of length n, over S.
InjSeqs(S, n) ==
    {s \in [1..n -> S] : \A i, j \in 1..n : i # j => s[i] # s[j]}

\* All dicts with at most n keys from names and values from values, in every
\* insertion order.
Dicts(names, values, n) ==
    UNION {{MkDict(ord, map) : map \in [Range(ord) -> values]} :
           ord \in UNION {InjSeqs(names, m) : m \in 0..n}}

(***************************************************************************)
(* Config access: config.get(key, default).                                 *)
(***************************************************************************)
CfgGet(cfg, key, default) == IF key \in DOMAIN cfg THEN cfg[key] ELSE default

(***************************************************************************)
(* filter_upstream                                                          *)
(***************************************************************************)
\* Variant: an exclude pattern is matched at the start of the key only.
filter_upstream_prefix_excludes(data, cfg) ==
    LET prefixes == CfgGet(cfg, "prefix_filters", <<>>)
        excludes == CfgGet(cfg, "exclude_patterns", <<>>)
        Kept(key) ==
            /\ ~StartsWithAny(key, excludes)
            /\ ~(Len(prefixes) > 0 /\ ~StartsWithAny(key, prefixes))
        ord == SelectSeq(data.ord, Kept)
    IN  MkDict(ord, [k \in Range(ord) |-> data.map[k]])

filter_upstream(data, cfg) ==
    LET prefixes == CfgGet(cfg, "prefix_filters", <<>>)
        excludes == CfgGet(cfg, "exclude_patterns", <<>>)
        Kept(key) ==
            /\ ~(\E i \in 1..Len(excludes) : Contains(key, excludes[i]))
            /\ ~(Len(prefixes) > 0 /\ ~StartsWithAny(key, prefixes))
        ord == SelectSeq(data.ord, Kept)
    IN  MkDict(ord, [k \in Range(ord) |-> data.map[k]])

(***************************************************************************)
(* merge_models                                                             *)
(***************************************************************************)
NewStats(n) == [added |-> 0, updated |-> 0, unchanged |-> 0, total_upstream |-> n]

\* The additive loop, from the i-th item of filtered on.
RECURSIVE MergeFrom(_, _, _, _, _)
MergeFrom(m, st, flt, update_existing, i) ==
    IF i > Len(flt.ord) THEN [merged |-> m, stats |-> st]
    ELSE LET key == flt.ord[i]
             value == flt.map[key]
         IN  IF key \notin Keys(m)
             THEN MergeFrom(Put(m, key, value),
                            [st EXCEPT !.added = @ + 1], flt, update_existing, i + 1)
             ELSE IF update_existing
             THEN IF ~PyEq(m.map[key], value)
                  THEN MergeFrom(Put(m, key, value),
                                 [st EXCEPT !.updated = @ + 1], flt, update_existing, i + 1)
                  ELSE MergeFrom(m, [st EXCEPT !.unchanged = @ + 1],
                                 flt, update_existing, i + 1)
             ELSE MergeFrom(m, [st EXCEPT !.unchanged = @ + 1],
                            flt, update_existing, i + 1)

\* Variant: update_existing is not consulted, every differing record is replaced.
merge_models_always_update(exist, flt, sync_mode, update_existing) ==
    IF sync_mode = "full"
    THEN [merged |-> flt,
          stats |-> [NewStats(DictLen(flt)) EXCEPT !.added = DictLen(flt)]]
    ELSE MergeFrom(exist, NewStats(DictLen(flt)), flt, TRUE, 1)

\* Variant: full mode merges into existing like additive mode.
merge_models_full_keeps_existing(exist, flt, sync_mode, update_existing) ==
    MergeFrom(exist, NewStats(DictLen(flt)), flt, update_existing, 1)

\* Variant: a replaced record is counted as added.
merge_models_updated_as_added(exist, flt, sync_mode, update_existing) ==
    IF sync_mode = "full"
    THEN [merged |-> flt,
          stats |-> [NewStats(DictLen(flt)) EXCEPT !.added = DictLen(flt)]]
    ELSE LET r == MergeFrom(exist, NewStats(DictLen(flt)), flt, update_existing, 1)
         IN  [merged |-> r.merged,
              stats |-> [r.stats EXCEPT !.added = r.stats.added + r.stats.updated,
                                        !.updated = 0]]

merge_models(exist, flt, sync_mode, update_existing) ==
    IF sync_mode = "full"
    THEN [merged |-> flt,
          stats |-> [NewStats(DictLen(flt)) EXCEPT !.added = DictLen(flt)]]
    ELSE MergeFrom(exist, NewStats(DictLen(flt)), flt, update_existing, 1)

(***************************************************************************)
(* apply_aliases.  aliases is the config's mapping in insertion order: a    *)
(* sequence of <<alias_key, alias_cfg>> with distinct keys.                 *)
(***************************************************************************)
AliasSource(alias_cfg) == CfgGet(alias_cfg, "source", "")

RECURSIVE AliasesFrom(_, _, _)
AliasesFrom(data, aliases, i) ==
    IF i > Len(aliases) THEN data
    ELSE LET alias_key == aliases[i][1]
             source == AliasSource(aliases[i][2])
         IN  IF source \notin Keys(data)
             THEN AliasesFrom(data, aliases, i + 1)
             ELSE AliasesFrom(Put(data, alias_key, data.map[source]), aliases, i + 1)

\* Variant: the mapping is walked from its last alias to its first.
apply_aliases_reversed(data, aliases) ==
    AliasesFrom(data, [i \in 1..Len(aliases) |-> aliases[Len(aliases) + 1 - i]], 1)

apply_aliases(data, aliases) == AliasesFrom(data, aliases, 1)

(***************************************************************************)
(* apply_custom_models                                                      *)
(***************************************************************************)
RECURSIVE CustomFrom(_, _, _)
CustomFrom(data, custom, i) ==
    IF i > Len(custom.ord) THEN data
    ELSE LET key == custom.ord[i]
             value == custom.map[key]
         IN  IF key \in Keys(data) /\ IsDict(data.map[key]) /\ IsDict(value)
             THEN CustomFrom(Put(data, key, Update(data.map[key], value)), custom, i + 1)
             ELSE CustomFrom(Put(data, key, value), custom, i + 1)

\* Variant: a custom record replaces the entry instead of updating it.
RECURSIVE ReplaceFrom(_, _, _)
ReplaceFrom(data, custom, i) ==
    IF i > Len(custom.ord) THEN data
    ELSE ReplaceFrom(Put(data, custom.ord[i], custom.map[custom.ord[i]]), custom, i + 1)

apply_custom_models_replace(data, custom) == ReplaceFrom(data, custom, 1)

apply_custom_models(data, custom) == CustomFrom(data, custom, 1)

(***************************************************************************)
(* fill_cache_1hr_pricing                                                   *)
(***************************************************************************)
COST_5M == "cache_creation_input_token_cost"
COST_1HR == "cache_creation_input_token_cost_above_1hr"
CLAUDE == "claude-"

\* Numbers are held in hundredths: Decimal(str(a)) * Decimal(str(b)).
DecimalScale == 100
DefaultRatio == 160

DecimalMul(a, b) == (a.v * b.v) \div DecimalScale

\* The loop over data.items(), from the i-th item on.
RECURSIVE FillFrom(_, _, _, _, _)
FillFrom(data, prefix, ratio, count, i) ==
    IF i > Len(data.ord) THEN [data |-> data, count |-> count]
    ELSE LET key == data.ord[i]
             value == data.map[key]
         IN  IF ~StartsWith(key, prefix)
             THEN FillFrom(data, prefix, ratio, count, i + 1)
             ELSE IF ~IsDict(value)
             THEN FillFrom(data, prefix, ratio, count, i + 1)
             ELSE IF Get(value, COST_5M) = None
             THEN FillFrom(data, prefix, ratio, count, i + 1)
             ELSE IF Get(value, COST_1HR) # None
             THEN FillFrom(data, prefix, ratio, count, i + 1)
             ELSE FillFrom(
                     Put(data, key,
                         Put(value, COST_1HR,
                             FloatVal(DecimalMul(Get(value, COST_5M), ratio)))),
                     prefix, ratio, count + 1, i + 1)

\* Variant: the loop does not look at the 1hr field before writing it.
RECURSIVE OverwriteFrom(_, _, _, _, _)
OverwriteFrom(data, prefix, ratio, count, i) ==
    IF i > Len(data.ord) THEN [data |-> data, count |-> count]
    ELSE LET key == data.ord[i]
             value == data.map[key]
         IN  IF StartsWith(key, prefix) /\ IsDict(value) /\ Get(value, COST_5M) # None
             THEN OverwriteFrom(
                     Put(data, key,
                         Put(value, COST_1HR,
                             FloatVal(DecimalMul(Get(value, COST_5M), ratio)))),
                     prefix, ratio, count + 1, i + 1)
             ELSE OverwriteFrom(data, prefix, ratio, count, i + 1)

fill_cache_1hr_pricing_overwrite(data, cfg) ==
    LET auto_fill_cfg == CfgGet(cfg, "cache_1hr_auto_fill", <<>>)
    IN  IF DOMAIN auto_fill_cfg = {}
        THEN [data |-> data, count |-> 0]
        ELSE OverwriteFrom(data,
                           CfgGet(auto_fill_cfg, "model_prefix", CLAUDE),
                           CfgGet(auto_fill_cfg, "ratio", FloatVal(DefaultRatio)),
                           0, 1)

\* Returns the mutated data with the count.  An absent rule and an empty one
\* are both falsy.
fill_cache_1hr_pricing(data, cfg) ==
    LET auto_fill_cfg == CfgGet(cfg, "cache_1hr_auto_fill", <<>>)
    IN  IF DOMAIN auto_fill_cfg = {}
        THEN [data |-> data, count |-> 0]
        ELSE FillFrom(data,
                      CfgGet(auto_fill_cfg, "model_prefix", CLAUDE),
                      CfgGet(auto_fill_cfg, "ratio", FloatVal(DefaultRatio)),
                      0, 1)

(***************************************************************************)
(* Output: json.dumps(sort_keys=True, indent=2) + "\n", SHA-256, the files. *)
(***************************************************************************)
\* Variant: json.dumps without sort_keys, items in insertion order.
RECURSIVE json_dumps_unsorted(_)
json_dumps_unsorted(x) ==
    IF ~IsDict(x) THEN x
    ELSE [t |-> "dict",
          items |-> [i \in 1..Len(x.ord) |->
                        <<x.ord[i], json_dumps_unsorted(x.map[x.ord[i]])>>]]

\* The text json.dumps writes: items in sorted key order at every level; a
\* number is written by its type and value (1 and 1.0 differ).
RECURSIVE json_dumps(_)
json_dumps(x) ==
    IF ~IsDict(x) THEN x
    ELSE LET sorted == SortKeys(Keys(x))
         IN  [t |-> "dict",
              items |-> [i \in 1..Len(sorted) |->
                            <<sorted[i], json_dumps(x.map[sorted[i]])>>]]

\* json.load: a dict keeps the order of the text.
RECURSIVE json_loads(_)
json_loads(txt) ==
    IF ~IsDict(txt) THEN txt
    ELSE MkDict([i \in 1..Len(txt.items) |-> txt.items[i][1]],
                [k \in {txt.items[i][1] : i \in 1..Len(txt.items)} |->
                    json_loads(txt.items[CHOOSE i \in 1..Len(txt.items) :
                                             txt.items[i][1] = k][2])])

\* json_bytes of write_output
json_bytes(data) == [text |-> json_dumps(data), eol |-> "\n"]

\* The str "" and the hex digest of some bytes.  SHA-256 is taken to be
\* injective: the digest determines the bytes.
EmptyStr == [hex |-> <<>>]
compute_hash(bytes) == [hex |-> <<bytes>>]

NoFile == [exists |-> FALSE]
FileWith(content) == [exists |-> TRUE, content |-> content]

\* Variant: the hash file is not written.
write_output_data_only(data, out_file, h_file, old) ==
    LET bytes == [text |-> json_dumps(data), eol |-> "\n"]
        new == [hex |-> <<bytes>>]
    IN  IF new = old
        THEN [output_file |-> out_file, hash_file |-> h_file,
              changed |-> FALSE, new_hash |-> new]
        ELSE [output_file |-> [exists |-> TRUE, content |-> bytes],
              hash_file |-> h_file,
              changed |-> TRUE, new_hash |-> new]

\* The outcome of write_output: the two files and the returned pair.
write_output(data, out_file, h_file, old) ==
    LET bytes == json_bytes(data)
        new == compute_hash(bytes)
    IN  IF new = old
        THEN [output_file |-> out_file, hash_file |-> h_file,
              changed |-> FALSE, new_hash |-> new]
        ELSE [output_file |-> FileWith(bytes),
              hash_file |-> FileWith([text |-> new, eol |-> "\n"]),
              changed |-> TRUE, new_hash |-> new]

\* load_existing: {} on first run, else json.load of the data file.
load_existing(out_file) ==
    IF ~out_file.exists THEN EmptyDict ELSE json_loads(out_file.content.text)

\* Variant: f.read() without strip(), the line end stays in old_hash.
load_existing_hash_unstripped(h_file) ==
    IF ~h_file.exists THEN [hex |-> <<>>] ELSE h_file.content

\* load_existing_hash: "" without a hash file, else f.read().strip(), which
\* drops the line end.
load_existing_hash(h_file) ==
    IF ~h_file.exists THEN EmptyStr ELSE h_file.content.text
(***************************************************************************)
(* main(): one action per numbered step; NextRun starts the next            *)
(* invocation of the script on the disk the last one left.                  *)
(***************************************************************************)
REQUIRED_CONFIG_KEYS ==
    {"upstream_url", "output_file", "hash_file", "sync_mode", "prefix_filters"}

\* load_config returns (rather than exits) exactly for these.
ValidConfig(cfg) ==
    /\ REQUIRED_CONFIG_KEYS \subseteq DOMAIN cfg
    /\ cfg["sync_mode"] \in {"additive", "full"}

NoRun == [done |-> FALSE]

disk == <<output_file, hash_file>>
locals == <<existing, old_hash, upstream, filtered, merged, stats,
            cache_1hr_count, changed, new_hash>>
history == <<before, runs, start_disk, last_run>>

FreshLocals ==
    /\ existing = EmptyDict
    /\ old_hash = EmptyStr
    /\ upstream = EmptyDict
    /\ filtered = EmptyDict
    /\ merged = EmptyDict
    /\ stats = NewStats(0)
    /\ cache_1hr_count = 0
    /\ changed = FALSE
    /\ new_hash = EmptyStr
    /\ before = EmptyDict
    /\ again = EmptyDict

\* 1. Load config
LoadConfig ==
    /\ pc = "load_config"
    /\ pc' = IF ValidConfig(config) THEN "load_existing" ELSE "exit1"
    /\ last_run' = IF ValidConfig(config) THEN last_run ELSE NoRun
    /\ UNCHANGED <<config, disk, locals, before, again, runs, start_disk>>

\* 2. Load existing data
LoadExisting ==
    /\ pc = "load_existing"
    /\ existing' = load_existing(output_file)
    /\ old_hash' = load_existing_hash(hash_file)
    /\ pc' = "fetch"
    /\ UNCHANGED <<config, disk, upstream, filtered, merged, stats,
                   cache_1hr_count, changed, new_hash, again, history>>

\* 3. Fetch upstream: fetch_upstream exits on a transport error, on invalid
\* JSON and on a JSON value that is not an object.
FetchUpstream(resp) ==
    /\ pc = "fetch"
    /\ IF resp.kind = "json" /\ IsDict(resp.data)
       THEN /\ upstream' = resp.data
            /\ pc' = "filter"
            /\ UNCHANGED last_run
       ELSE /\ pc' = "exit1"
            /\ last_run' = NoRun
            /\ UNCHANGED upstream
    /\ UNCHANGED <<config, disk, existing, old_hash, filtered, merged, stats,
                   cache_1hr_count, changed, new_hash, before, again, runs,
                   start_disk>>

\* 4. Filter
Filter ==
    /\ pc = "filter"
    /\ filtered' = filter_upstream(upstream, config)
    /\ pc' = "merge"
    /\ UNCHANGED <<config, disk, existing, old_hash, upstream, merged, stats,
                   cache_1hr_count, changed, new_hash, again, history>>

\* 5. Merge
Merge ==
    /\ pc = "merge"
    /\ LET r == merge_models(existing, filtered, config["sync_mode"],
                             CfgGet(config, "update_existing", FALSE))
       IN  /\ merged' = r.merged
           /\ stats' = r.stats
    /\ pc' = "aliases"
    /\ UNCHANGED <<config, disk, existing, old_hash, upstream, filtered,
                   cache_1hr_count, changed, new_hash, again, history>>

\* 6. Aliases
Aliases ==
    /\ pc = "aliases"
    /\ LET aliases == CfgGet(config, "aliases", <<>>)
       IN  merged' = IF Len(aliases) > 0 THEN apply_aliases(merged, aliases)
                     ELSE merged
    /\ before' = merged
    /\ pc' = "fill"
    /\ UNCHANGED <<config, disk, existing, old_hash, upstream, filtered, stats,
                   cache_1hr_count, changed, new_hash, again, runs, start_disk,
                   last_run>>

\* 7. Auto-fill cache 1hr pricing
Fill ==
    /\ pc = "fill"
    /\ LET r == fill_cache_1hr_pricing(merged, config)
       IN  /\ merged' = r.data
           /\ cache_1hr_count' = r.count
    /\ before' = merged
    /\ pc' = "custom"
    /\ UNCHANGED <<config, disk, existing, old_hash, upstream, filtered, stats,
                   changed, new_hash, again, runs, start_disk, last_run>>

\* 8. Custom models
Custom ==
    /\ pc = "custom"
    /\ LET custom == CfgGet(config, "custom_models", EmptyDict)
       IN  merged' = IF DictLen(custom) > 0
                     THEN apply_custom_models(merged, custom)
                     ELSE merged
    /\ before' = merged
    /\ pc' = "write"
    /\ UNCHANGED <<config, disk, existing, old_hash, upstream, filtered, stats,
                   cache_1hr_count, changed, new_hash, again, runs, start_disk,
                   last_run>>

\* 9. Write output
Write ==
    /\ pc = "write"
    /\ LET w == write_output(merged, output_file, hash_file, old_hash)
       IN  /\ output_file' = w.output_file
           /\ hash_file' = w.hash_file
           /\ changed' = w.changed
           /\ new_hash' = w.new_hash
    /\ pc' = "report"
    /\ UNCHANGED <<config, existing, old_hash, upstream, filtered, merged,
                   stats, cache_1hr_count, again, history>>

\* 10. Report, CHANGED= and HASH=, exit 0
Report ==
    /\ pc = "report"
    /\ pc' = "exit0"
    /\ last_run' = [done |-> TRUE, upstream |-> upstream, merged |-> merged,
                    changed |-> changed, new_hash |-> new_hash]
    /\ UNCHANGED <<config, disk, locals, before, again, runs, start_disk>>

\* The script is invoked again with the same config.json.
NextRun ==
    /\ pc \in {"exit0", "exit1"}
    /\ runs < MaxRuns
    /\ runs' = runs + 1
    /\ pc' = "load_config"
    /\ start_disk' = disk
    /\ existing' = EmptyDict
    /\ old_hash' = EmptyStr
    /\ upstream' = EmptyDict
    /\ filtered' = EmptyDict
    /\ merged' = EmptyDict
    /\ stats' = NewStats(0)
    /\ cache_1hr_count' = 0
    /\ changed' = FALSE
    /\ new_hash' = EmptyStr
    /\ before' = EmptyDict
    /\ UNCHANGED <<config, disk, again, last_run>>
(***************************************************************************)
(* Inputs of the runs: config.json, the disk the first run finds, and the   *)
(* upstream responses.                                                      *)
(***************************************************************************)
Rec1(k, x) == MkDict(<<k>>, (k :> x))
Rec2(k1, x1, k2, x2) == MkDict(<<k1, k2>>, (k1 :> x1) @@ (k2 :> x2))

\* Pricing records: {"cost": 1}, {"cost": 1.0}, {"cost": 2}, and records
\* with the 5-minute cache write cost 0.3.
Cost1 == Rec1("cost", IntVal(100))
Cost1f == Rec1("cost", FloatVal(100))
Cost2 == Rec1("cost", IntVal(200))
Cache5m == Rec1(COST_5M, FloatVal(30))
Cache5mMode == Rec2("mode", IntVal(100), COST_5M, FloatVal(30))
Cache5mModef == Rec2(COST_5M, FloatVal(30), "mode", FloatVal(100))

RequiredConfig(sync_mode, prefix_filters) ==
    [upstream_url |-> "url", output_file |-> "out.json", hash_file |-> "out.sha256",
     sync_mode |-> sync_mode, prefix_filters |-> prefix_filters]

\* An optional config key: absent, or present with one of the values.
Optional(key, values) == {<<>>} \cup {(key :> x) : x \in values}

\* Alias mappings: at most n aliases with distinct keys, in every order.
AliasMaps(alias_keys, alias_cfgs, n) ==
    UNION {UNION {{[i \in 1..m |-> <<ks[i], cs[i]>>] :
                      cs \in [1..m -> alias_cfgs]} :
                  ks \in InjSeqs(alias_keys, m)} :
           m \in 0..n}

\* aliases of the runs: one alias, a chain listed source-first, the same
\* chain listed alias-first, and an alias of a model that is nowhere.
MainAliases ==
    {<< <<"my-3", [source |-> "claude-3"]>> >>,
     << <<"my-3", [source |-> "claude-3"]>>, <<"gpt-4", [source |-> "my-3"]>> >>,
     << <<"gpt-4", [source |-> "my-3"]>>, <<"my-3", [source |-> "claude-3"]>> >>,
     << <<"my-3", [source |-> "claude-x"]>> >>}

\* custom_models of the runs: fields over an upstream record, a new model
\* beside a record over whatever gpt-4 is, and a bare number over gpt-4.
MainCustom ==
    {Rec1("claude-3", Rec2("mode", IntVal(200), "cost", IntVal(200))),
     MkDict(<<"claude-x", "gpt-4">>, ("claude-x" :> Cache5m) @@ ("gpt-4" :> Cost2)),
     Rec1("gpt-4", IntVal(100))}

MainAutoFill == {[ratio |-> FloatVal(200)]}

MainConfigs ==
    {RequiredConfig(m, <<"claude-", "gpt-">>) @@ u @@ a @@ c @@ f :
        m \in {"additive", "full"},
        u \in Optional("update_existing", {TRUE}),
        a \in Optional("aliases", MainAliases),
        c \in Optional("custom_models", MainCustom),
        f \in Optional("cache_1hr_auto_fill", MainAutoFill)}

\* config.json files load_config rejects: a required key missing, and a
\* sync_mode that is neither "additive" nor "full".
BadConfigs ==
    {[sync_mode |-> "additive", prefix_filters |-> <<>>],
     RequiredConfig("mirror", <<>>)}

MainUpstreams ==
    {MkDict(<<"claude-3", "gpt-4">>, ("claude-3" :> Cache5mMode) @@ ("gpt-4" :> Cost1)),
     MkDict(<<"gpt-4", "claude-3">>, ("claude-3" :> Cache5mModef) @@ ("gpt-4" :> Cost1f)),
     MkDict(<<"my-3", "gpt-4">>, ("my-3" :> Cost2) @@ ("gpt-4" :> IntVal(100)))}

\* What the GET can bring back: a transport error, bytes that are not JSON,
\* JSON that is not an object, or a catalog.
Responses ==
    {[kind |-> "error"], [kind |-> "not_json"]}
    \cup {[kind |-> "json", data |-> x] : x \in MainUpstreams \cup {IntVal(100)}}

\* The data file and hash file write_output leaves for a catalog.
FilesOf(data) ==
    <<FileWith(json_bytes(data)),
      FileWith([text |-> compute_hash(json_bytes(data)), eol |-> "\n"])>>

\* A data file written by hand, its keys not sorted, with its digest.
HandMadeBytes ==
    [text |-> [t |-> "dict",
               items |-> << <<"gpt-4", json_dumps(Cost1)>>,
                          <<"claude-3", json_dumps(Cache5m)>> >>],
     eol |-> "\n"]

HandMadeFiles ==
    <<FileWith(HandMadeBytes),
      FileWith([text |-> compute_hash(HandMadeBytes), eol |-> "\n"])>>

\* The disk before the first run: no files, the two files of an earlier
\* sync, or the hand-made pair.
InitialDisks ==
    {<<NoFile, NoFile>>, FilesOf(Rec1("claude-3", Cache5mMode)), HandMadeFiles}

Init ==
    /\ pc = "load_config"
    /\ config \in MainConfigs \cup BadConfigs
    /\ \E d \in InitialDisks :
           /\ output_file = d[1]
           /\ hash_file = d[2]
           /\ start_disk = d
    /\ FreshLocals
    /\ runs = 1
    /\ last_run = NoRun

Next ==
    \/ LoadConfig
    \/ LoadExisting
    \/ \E resp \in Responses : FetchUpstream(resp)
    \/ Filter
    \/ Merge
    \/ Aliases
    \/ Fill
    \/ Custom
    \/ Write
    \/ Report
    \/ NextRun

Spec == Init /\ [][Next]_vars
(***************************************************************************)
(* The stages called on their own: filter_upstream, merge_models,           *)
(* apply_aliases, fill_cache_1hr_pricing and write_output are functions of  *)
(* their arguments, so each is also driven directly, on arguments drawn     *)
(* from bounded sets, and called a second time on its own result.           *)
(***************************************************************************)
StageInit(first, cfgs, existings, upstreams, datas) ==
    /\ pc = first
    /\ config \in cfgs
    /\ existing \in existings
    /\ upstream \in upstreams
    /\ merged \in datas
    /\ output_file = NoFile
    /\ hash_file = NoFile
    /\ old_hash = EmptyStr
    /\ filtered = EmptyDict
    /\ stats = NewStats(0)
    /\ cache_1hr_count = 0
    /\ changed = FALSE
    /\ new_hash = EmptyStr
    /\ before = EmptyDict
    /\ again = EmptyDict
    /\ runs = 0
    /\ start_disk = <<NoFile, NoFile>>
    /\ last_run = NoRun

\* Sequences of length at most n over S.
SeqsUpTo(S, n) == UNION {[1..m -> S] : m \in 0..n}

StageNames == {"gpt-4", "gpt-3", "claude-x"}

\* ---- filter_upstream ----
FilterConfigs ==
    {RequiredConfig("additive", p) @@ e :
        p \in SeqsUpTo({"gpt-", "claude-"}, MaxPatterns),
        e \in Optional("exclude_patterns", SeqsUpTo({"-x", "3", ""}, MaxPatterns))}

FilterUpstreams == Dicts(StageNames, {Cost1, None}, MaxModels)

InitFilter ==
    StageInit("call_filter", FilterConfigs, {EmptyDict}, FilterUpstreams, {EmptyDict})

CallFilter ==
    /\ pc = "call_filter"
    /\ filtered' = filter_upstream(upstream, config)
    /\ pc' = "filtered"
    /\ UNCHANGED <<config, disk, existing, old_hash, upstream, merged, stats,
                   cache_1hr_count, changed, new_hash, again, history>>

CallFilterAgain ==
    /\ pc = "filtered"
    /\ again' = filter_upstream(filtered, config)
    /\ pc' = "filtered_again"
    /\ UNCHANGED <<config, disk, locals, history>>

NextFilter == CallFilter \/ CallFilterAgain

SpecFilter == InitFilter /\ [][NextFilter]_vars

\* ---- filter_upstream, then merge_models ----
Cost05 == Rec1("cost", FloatVal(50))
Cost9 == Rec1("cost", IntVal(900))

\* The upstream and existing catalogs of the end-to-end example.
ExampleUpstream ==
    MkDict(<<"gpt-4", "gpt-3", "claude-x">>,
           ("gpt-4" :> Cost2) @@ ("gpt-3" :> Cost05) @@ ("claude-x" :> Cost9))

ExampleExisting == Rec1("gpt-4", Cost1)

MergeConfigs ==
    {RequiredConfig(m, p) @@ u :
        m \in {"additive", "full"},
        p \in {<<>>, <<"gpt-">>},
        u \in Optional("update_existing", {TRUE, FALSE})}

MergeExistings == Dicts(StageNames, {Cost1, Cost2}, MaxModels)

MergeUpstreams ==
    Dicts(StageNames, {Cost1f, Cost2}, MaxModels) \cup {ExampleUpstream}

InitMerge ==
    StageInit("call_filter", MergeConfigs, MergeExistings, MergeUpstreams, {EmptyDict})

CallMerge ==
    /\ pc = "filtered"
    /\ LET r == merge_models(existing, filtered, config["sync_mode"],
                             CfgGet(config, "update_existing", FALSE))
       IN  /\ merged' = r.merged
           /\ stats' = r.stats
    /\ pc' = "merged"
    /\ UNCHANGED <<config, disk, existing, old_hash, upstream, filtered,
                   cache_1hr_count, changed, new_hash, again, history>>

NextMerge == CallFilter \/ CallMerge

SpecMerge == InitMerge /\ [][NextMerge]_vars

\* ---- apply_aliases ----
AliasConfigs ==
    {RequiredConfig("additive", <<>>) @@ ("aliases" :> a) :
        a \in AliasMaps(StageNames,
                        {[source |-> "gpt-4"], [source |-> "gpt-3"], [note |-> "x"]},
                        MaxAliases)}

AliasDatas == Dicts(StageNames, {Cost1, Cost2}, MaxModels)

InitAliases ==
    StageInit("call_aliases", AliasConfigs, {EmptyDict}, {EmptyDict}, AliasDatas)

CallAliases ==
    /\ pc = "call_aliases"
    /\ merged' = apply_aliases(merged, config["aliases"])
    /\ before' = merged
    /\ pc' = "aliased"
    /\ UNCHANGED <<config, disk, existing, old_hash, upstream, filtered, stats,
                   cache_1hr_count, changed, new_hash, again, runs, start_disk,
                   last_run>>

CallAliasesAgain ==
    /\ pc = "aliased"
    /\ again' = apply_aliases(merged, config["aliases"])
    /\ pc' = "aliased_again"
    /\ UNCHANGED <<config, disk, locals, history>>

NextAliases == CallAliases \/ CallAliasesAgain

SpecAliases == InitAliases /\ [][NextAliases]_vars

\* ---- fill_cache_1hr_pricing ----
FillConfigs ==
    {RequiredConfig("additive", <<>>) @@ f :
        f \in Optional("cache_1hr_auto_fill",
                       {<<>>, [enabled |-> TRUE],
                        [model_prefix |-> "gpt-", ratio |-> FloatVal(200)]})}

\* Records with and without the two cache fields, a null in either, and an
\* entry that is not a record.
FillEntries ==
    {Cache5m,
     Rec2(COST_5M, FloatVal(30), COST_1HR, FloatVal(100)),
     Rec2(COST_5M, FloatVal(30), COST_1HR, None),
     Rec2(COST_5M, None, "mode", IntVal(100)),
     Cost1,
     IntVal(100)}

FillDatas == Dicts({"claude-x", "claude-3", "gpt-4"}, FillEntries, MaxModels)

InitFill ==
    StageInit("call_fill", FillConfigs, {EmptyDict}, {EmptyDict}, FillDatas)

CallFill ==
    /\ pc = "call_fill"
    /\ LET r == fill_cache_1hr_pricing(merged, config)
       IN  /\ merged' = r.data
           /\ cache_1hr_count' = r.count
    /\ before' = merged
    /\ pc' = "filled"
    /\ UNCHANGED <<config, disk, existing, old_hash, upstream, filtered, stats,
                   changed, new_hash, again, runs, start_disk, last_run>>

CallFillAgain ==
    /\ pc = "filled"
    /\ again' = fill_cache_1hr_pricing(merged, config)
    /\ pc' = "filled_again"
    /\ UNCHANGED <<config, disk, locals, history>>

NextFill == CallFill \/ CallFillAgain

SpecFill == InitFill /\ [][NextFill]_vars

\* ---- write_output ----
Perms(S) == InjSeqs(S, Cardinality(S))

\* The dicts with the content of x: the same keys and values at every
\* level, inserted in any order.
RECURSIVE Reorderings(_)
Reorderings(x) ==
    IF ~IsDict(x) THEN {x}
    ELSE {MkDict(ord, map) :
             ord \in Perms(Keys(x)),
             map \in {f \in [Keys(x) -> UNION {Reorderings(x.map[k]) : k \in Keys(x)}] :
                         \A k \in Keys(x) : f[k] \in Reorderings(x.map[k])}}

WriteDatas == Dicts(StageNames, {Cost1, Cost1f, Cache5mMode}, MaxModels)

\* write_output is called with any old_hash and any two files already there.
InitWrite ==
    /\ pc = "call_write"
    /\ config = RequiredConfig("additive", <<>>)
    /\ merged \in WriteDatas
    /\ old_hash \in {EmptyStr, compute_hash(json_bytes(Rec1("gpt-4", Cost1))),
                     compute_hash(json_bytes(Rec1("gpt-3", Cache5mMode)))}
    /\ \E d \in {<<NoFile, NoFile>>, FilesOf(Rec1("gpt-4", Cost1f))} :
           /\ output_file = d[1]
           /\ hash_file = d[2]
           /\ start_disk = d
    /\ existing = EmptyDict
    /\ upstream = EmptyDict
    /\ filtered = EmptyDict
    /\ stats = NewStats(0)
    /\ cache_1hr_count = 0
    /\ changed = FALSE
    /\ new_hash = EmptyStr
    /\ before = EmptyDict
    /\ again = EmptyDict
    /\ runs = 0
    /\ last_run = NoRun

CallWrite ==
    /\ pc = "call_write"
    /\ LET w == write_output(merged, output_file, hash_file, old_hash)
       IN  /\ output_file' = w.output_file
           /\ hash_file' = w.hash_file
           /\ changed' = w.changed
           /\ new_hash' = w.new_hash
    /\ pc' = "written"
    /\ UNCHANGED <<config, existing, old_hash, upstream, filtered, merged,
                   stats, cache_1hr_count, again, history>>

\* The second call: the same content, however inserted, and the hash the
\* first call returned.
CallWriteAgain(data) ==
    /\ pc = "written"
    /\ LET w == write_output(data, output_file, hash_file, new_hash)
       IN  /\ output_file' = w.output_file
           /\ hash_file' = w.hash_file
           /\ again' = [data |-> data, changed |-> w.changed,
                        new_hash |-> w.new_hash, disk |-> disk]
    /\ pc' = "written_again"
    /\ UNCHANGED <<config, locals, history>>

NextWrite ==
    \/ CallWrite
    \/ \E data \in Reorderings(merged) : CallWriteAgain(data)

SpecWrite == InitWrite /\ [][NextWrite]_vars
(***************************************************************************)
(* Properties.                                                              *)
(***************************************************************************)
Size(S) == Cardinality(S)

\* ---- C1 ----
\* The keys the filter policy keeps: no exclude pattern occurs in the key,
\* and prefix_filters is empty or one of its prefixes starts the key.
PolicyKeeps(key, cfg) ==
    LET prefixes == CfgGet(cfg, "prefix_filters", <<>>)
        excludes == CfgGet(cfg, "exclude_patterns", <<>>)
    IN  /\ \A i \in 1..Len(excludes) : ~Contains(key, excludes[i])
        /\ \/ Len(prefixes) = 0
           \/ \E i \in 1..Len(prefixes) : StartsWith(key, prefixes[i])

\* C1: filter_upstream returns exactly the upstream entries whose key the
\* policy keeps, each with the record upstream has for it, and filtering
\* the result again with the same config returns the same catalog.
C1_FilterContract ==
    pc \in {"filtered", "filtered_again"} =>
        /\ Keys(filtered) = {k \in Keys(upstream) : PolicyKeeps(k, config)}
        /\ Len(filtered.ord) = Size(Keys(filtered))
        /\ \A k \in Keys(filtered) : filtered.map[k] = upstream.map[k]
        /\ pc = "filtered_again" => again = filtered

\* A call with prefixes and exclude patterns that kept one key and dropped
\* another, which starts with a listed prefix, for an exclude pattern in
\* the middle of it; the second call returned the first one's result.
C1_Witness ==
    /\ pc = "filtered_again"
    /\ Keys(filtered) # {}
    /\ Len(config["prefix_filters"]) > 0
    /\ \E k \in Keys(upstream) \ Keys(filtered) :
           /\ StartsWithAny(k, config["prefix_filters"])
           /\ \E p \in Range(CfgGet(config, "exclude_patterns", <<>>)) :
                  Contains(k, p) /\ ~StartsWith(k, p)

\* ---- C2 ----
Shared == Keys(existing) \cap Keys(filtered)
Differing == {k \in Shared : ~PyEq(existing.map[k], filtered.map[k])}
UpdateExisting == CfgGet(config, "update_existing", FALSE)

\* C2: additive merge.  The result has the keys of existing and of
\* filtered; a key only in existing keeps its record; a key only in
\* filtered gets the filtered record and counts as added; a shared key
\* keeps the existing record unless update_existing is set and the two
\* records differ under ==, when it gets the filtered record and counts as
\* updated; every other shared key counts as unchanged; and
\* added + updated + unchanged = total_upstream = len(filtered).
C2_AdditiveMerge ==
    (pc = "merged" /\ config["sync_mode"] = "additive") =>
        /\ Keys(merged) = Keys(existing) \cup Keys(filtered)
        /\ Len(merged.ord) = Size(Keys(merged))
        /\ \A k \in Keys(existing) \ Keys(filtered) : merged.map[k] = existing.map[k]
        /\ \A k \in Keys(filtered) \ Keys(existing) : merged.map[k] = filtered.map[k]
        /\ \A k \in Shared :
              merged.map[k] = IF UpdateExisting /\ k \in Differing
                              THEN filtered.map[k]
                              ELSE existing.map[k]
        /\ \A k \in Shared : UpdateExisting => PyEq(merged.map[k], filtered.map[k])
        /\ stats.added = Size(Keys(filtered) \ Keys(existing))
        /\ stats.updated = IF UpdateExisting THEN Size(Differing) ELSE 0
        /\ stats.unchanged = Size(Shared) - stats.updated
        /\ stats.total_upstream = DictLen(filtered)
        /\ stats.added + stats.updated + stats.unchanged = stats.total_upstream

\* An additive merge without update_existing that added a key, kept a key
\* only existing has, and left a differing shared record alone.
C2_Witness ==
    /\ pc = "merged"
    /\ config["sync_mode"] = "additive"
    /\ ~UpdateExisting
    /\ Differing # {}
    /\ Keys(filtered) \ Keys(existing) # {}
    /\ Keys(existing) \ Keys(filtered) # {}

\* ---- C3 ----
\* C3: full merge.  Whatever existing and update_existing are, the result
\* is the filtered catalog, and added = len(filtered), updated = 0,
\* unchanged = 0.
C3_FullMerge ==
    (pc = "merged" /\ config["sync_mode"] = "full") =>
        /\ merged = filtered
        /\ stats = [added |-> DictLen(filtered), updated |-> 0, unchanged |-> 0,
                    total_upstream |-> DictLen(filtered)]

\* A full merge with update_existing set that dropped a key of existing and
\* met a shared key.
C3_Witness ==
    /\ pc = "merged"
    /\ config["sync_mode"] = "full"
    /\ UpdateExisting
    /\ Keys(existing) \ Keys(filtered) # {}
    /\ Shared # {}
    /\ Keys(existing) \ Keys(merged) # {}

\* ---- C4 ----
ExampleConfig ==
    RequiredConfig("additive", <<"gpt-">>) @@ ("update_existing" :> TRUE)

ExampleRan ==
    /\ pc = "merged"
    /\ config = ExampleConfig
    /\ existing = ExampleExisting
    /\ upstream = ExampleUpstream

\* C4 as the spec words it: in the end-to-end example the filter leaves
\* only gpt-4, and the merge yields {gpt-4: {cost: 2}} with added = 0,
\* updated = 1, unchanged = 0.
C4_ExampleAsWritten ==
    ExampleRan =>
        /\ filtered = Rec1("gpt-4", Cost2)
        /\ merged = Rec1("gpt-4", Cost2)
        /\ stats.added = 0 /\ stats.updated = 1 /\ stats.unchanged = 0

\* C4, amended: in the end-to-end example the prefix "gpt-" removes only
\* claude-x; filtered is {gpt-4: {cost: 2}, gpt-3: {cost: 0.5}}, the merge
\* yields the same two records, and added = 1, updated = 1, unchanged = 0.
C4_Example ==
    ExampleRan =>
        /\ filtered = MkDict(<<"gpt-4", "gpt-3">>,
                             ("gpt-4" :> Cost2) @@ ("gpt-3" :> Cost05))
        /\ merged = MkDict(<<"gpt-4", "gpt-3">>,
                           ("gpt-4" :> Cost2) @@ ("gpt-3" :> Cost05))
        /\ stats = [added |-> 1, updated |-> 1, unchanged |-> 0, total_upstream |-> 2]

C4_Witness == ExampleRan /\ "gpt-3" \in Keys(merged)

\* ---- C5 ----
AliasList == CfgGet(config, "aliases", <<>>)
AliasKey(i) == AliasList[i][1]
SourceOf(i) == AliasSource(AliasList[i][2])

\* The catalog when the i-th alias is reached: the first i - 1 applied.
AtAlias(i) == apply_aliases(before, SubSeq(AliasList, 1, i - 1))

\* No alias names as its source the key of an alias listed after it.
NoLaterSource ==
    \A i, j \in 1..Len(AliasList) : i < j => SourceOf(i) # AliasKey(j)

\* An alias whose source is missing when it is reached is skipped: the
\* alias key keeps what it had, or stays absent.
SkippedAliasesUntouched ==
    \A i \in 1..Len(AliasList) :
        SourceOf(i) \notin Keys(AtAlias(i)) =>
            /\ AliasKey(i) \in Keys(merged) <=> AliasKey(i) \in Keys(before)
            /\ Get(merged, AliasKey(i)) = Get(before, AliasKey(i))

\* C5 as the spec words it: applying any alias mapping a second time
\* leaves the catalog unchanged, chained aliases included.
C5_IdempotentAsWritten ==
    pc = "aliased_again" => again = merged

\* C5, amended: applying the same alias mapping a second time leaves the
\* catalog unchanged provided no alias names as its source an alias that
\* comes later in the mapping; and an alias whose source is absent when it
\* is processed is skipped, its key keeping any prior value.
C5_Idempotent ==
    pc \in {"aliased", "aliased_again"} =>
        /\ SkippedAliasesUntouched
        /\ (pc = "aliased_again" /\ NoLaterSource) => again = merged

\* A chain listed source-first was applied twice, its second alias copying
\* what the first one wrote, and another call skipped an alias over a key
\* the catalog already had.
C5_Witness ==
    /\ pc = "aliased_again"
    /\ NoLaterSource
    /\ merged # before
    /\ \E i, j \in 1..Len(AliasList) :
           /\ i < j
           /\ SourceOf(j) = AliasKey(i)
           /\ SourceOf(i) \in Keys(before)
           /\ SourceOf(i) # AliasKey(i)
           /\ Get(before, AliasKey(j)) # Get(merged, AliasKey(j))

\* ---- C6 ----
AutoFillCfg == CfgGet(config, "cache_1hr_auto_fill", <<>>)
AutoFillPrefix == CfgGet(AutoFillCfg, "model_prefix", "claude-")
Filled == {k \in Keys(before) : merged.map[k] # before.map[k]}

\* C6 as the spec words it: a 1hr field that was present in a record
\* before the call is never changed.
C6_PresentTargetKeptAsWritten ==
    pc = "filled" =>
        \A k \in Keys(before) :
            (IsDict(before.map[k]) /\ COST_1HR \in Keys(before.map[k])) =>
                merged.map[k].map[COST_1HR] = before.map[k].map[COST_1HR]

\* C6, amended: fill_cache_1hr_pricing never changes a 1hr field that was
\* present with a non-null value before the call (a null one is filled),
\* changes no record whose key does not start with the configured prefix
\* or that lacks the 5-minute field, changes no other field, returns the
\* number of records it filled, and on its own result fills nothing and
\* returns 0.
C6_FillContract ==
    pc \in {"filled", "filled_again"} =>
        /\ merged.ord = before.ord
        /\ \A k \in Keys(before) :
              LET b == before.map[k]
                  m == merged.map[k]
              IN  /\ (IsDict(b) /\ Get(b, COST_1HR) # None) => m = b
                  /\ ~StartsWith(k, AutoFillPrefix) => m = b
                  /\ ~IsDict(b) => m = b
                  /\ (IsDict(b) /\ COST_5M \notin Keys(b)) => m = b
                  /\ IsDict(b) =>
                        /\ IsDict(m)
                        /\ Keys(m) \ {COST_1HR} = Keys(b) \ {COST_1HR}
                        /\ \A f \in Keys(b) \ {COST_1HR} : m.map[f] = b.map[f]
        /\ cache_1hr_count = Size(Filled)
        /\ pc = "filled_again" => (again.count = 0 /\ again.data = merged)

\* One call filled a record, left alone a record that had its own 1hr
\* price, and returned 1; the second call returned 0.
C6_Witness ==
    /\ pc = "filled_again"
    /\ cache_1hr_count = 1
    /\ \E k \in Keys(before) :
           /\ StartsWith(k, AutoFillPrefix)
           /\ IsDict(before.map[k])
           /\ Get(before.map[k], COST_5M) # None
           /\ Get(before.map[k], COST_1HR) \notin {None, FloatVal(DecimalMul(Get(before.map[k], COST_5M), CfgGet(AutoFillCfg, "ratio", FloatVal(DefaultRatio))))}

\* ---- C7 ----
CustomModels == CfgGet(config, "custom_models", EmptyDict)

C8_ChangeDetection ==
    /\ pc = "written" =>
          LET digest == compute_hash(json_bytes(merged))
          IN  IF digest = old_hash
              THEN disk = start_disk /\ ~changed /\ new_hash = digest
              ELSE /\ output_file = FileWith(json_bytes(merged))
                   /\ hash_file = FileWith([text |-> digest, eol |-> "\n"])
                   /\ changed
                   /\ new_hash = digest
    /\ pc = "written_again" =>
          /\ ~again.changed
          /\ again.new_hash = new_hash
          /\ disk = again.disk

\* The first call wrote both files; the second was given the same models
\* in another order.
C8_Witness ==
    /\ pc = "written_again"
    /\ changed
    /\ again.data.ord # merged.ord
    /\ \E k \in Keys(merged) : again.data.map[k] # merged.map[k]

\* ---- C9 ----
\* The hash file holds the digest of the data file's bytes, or both files
\* are absent.
Consistent(d) ==
    \/ ~d[1].exists /\ ~d[2].exists
    \/ /\ d[1].exists /\ d[2].exists
       /\ load_existing_hash(d[2]) = compute_hash(d[1].content)
       /\ d[2].content.eol = "\n"

\* C9: through any sequence of runs the two files stay consistent; a run
\* that aborts on a config, fetch or format error leaves both as it found
\* them; and a completed run rewrote both files or neither.
C9_FilesConsistent ==
    /\ Consistent(disk)
    /\ pc = "exit1" => disk = start_disk
    /\ pc \in {"report", "exit0"} =>
          /\ (output_file # start_disk[1]) <=> changed
          /\ (hash_file # start_disk[2]) <=> changed
    /\ pc \notin {"report", "exit0", "exit1"} => disk = start_disk

\* A run rewrote the two files an earlier run had written, and the run
\* after it aborted.
C9_Witness ==
    /\ pc = "exit1"
    /\ runs > 1
    /\ output_file.exists
    /\ existing # EmptyDict
    /\ output_file \notin {d[1] : d \in InitialDisks}

\* ---- C10 ----
HasAliases == Len(CfgGet(config, "aliases", <<>>)) > 0
HasCustom == DictLen(CustomModels) > 0
HasAutoFill == DOMAIN AutoFillCfg # {}

\* A run that has just written or skipped its output, right after a
\* completed run that fetched the same upstream.
SecondOfTwoRuns ==
    /\ pc = "report"
    /\ last_run.done
    /\ last_run.upstream = upstream

\* The run recomputed the previous run's catalog and wrote nothing.
RepeatedRun ==
    /\ json_bytes(merged) = json_bytes(last_run.merged)
    /\ ~changed
    /\ new_hash = last_run.new_hash
    /\ disk = start_disk

\* C10 as the spec words it: for every config the second of two runs on
\* the same upstream recomputes the same catalog, reports CHANGED=false
\* and writes nothing.
C10_RunIdempotentAsWritten ==
    SecondOfTwoRuns => RepeatedRun

\* C10, amended: the second of two runs on the same upstream recomputes
\* the same catalog, reports CHANGED=false and writes nothing when
\* sync_mode is full, and in additive mode when the config has no aliases
\* and no custom_models and does not combine update_existing with the
\* auto-fill rule.
C10_RunIdempotent ==
    (/\ SecondOfTwoRuns
     /\ \/ config["sync_mode"] = "full"
        \/ /\ ~HasAliases
           /\ ~HasCustom
           /\ ~(HasAutoFill /\ UpdateExisting)) => RepeatedRun

\* An additive run filled a 1hr price and wrote the files; the run after
\* it, on the same upstream, found nothing to fill.
C10_Witness ==
    /\ SecondOfTwoRuns
    /\ config["sync_mode"] = "additive"
    /\ ~HasAliases /\ ~HasCustom /\ HasAutoFill
    /\ last_run.changed
    /\ cache_1hr_count = 0
    /\ \E k \in Keys(merged) : IsDict(merged.map[k]) /\ COST_1HR \in Keys(merged.map[k])
====
